---- MODULE Spec2Model ----
(***************************************************************************)
(* Model of the SP3 downloader (src/sp3exe.py, class SP3CombinedDownloader) *)
(* GPS date conversion, product availability analysis, candidate filename   *)
(* generation and the probe / fetch / fallback traversal.                   *)
(*                                                                          *)
(* Time is counted in ticks; TicksPerHour ticks make one hour, so that      *)
(* fractional hours (datetime.now() has sub-hour resolution) are covered.   *)
(* The wall clock `now` is the number of ticks since the GPS epoch          *)
(* (1980-01-06 00:00).  Calendar dates are records [year, month, day].      *)
(***************************************************************************)
EXTENDS Integers, Sequences, FiniteSets, TLC

VARIABLES
    target_date,        \* the date handed to the downloader (midnight of a calendar day)
    now,                \* the wall clock read by datetime.now(), in ticks since the GPS epoch
    elapsedDays,        \* days walked from the GPS epoch to target_date (calendar walk)
    gps,                \* last result of date_to_gps_week
    availability,       \* last result of analyze_data_availability
    prev_availability,  \* the result of the call before that one
    gen,                \* last result of generate_combined_sp3_filenames, with its inputs
    prev_gen,           \* the result of the call before that one
    pc,                 \* position of smart_download_sp3 / download_product_type
    optimal_product,    \* smart_download_sp3: availability['optimal_product']
    product_type,       \* the class of the running download_product_type call
    filenames,          \* download_product_type: the candidate list being probed
    j,                  \* download_product_type: index of the candidate being probed (1-based)
    result,             \* what smart_download_sp3 returns
    attempts,           \* classes handed to download_product_type so far, in call order
    hist,               \* observations of the run (answers seen, requests issued)
    files,              \* the output directory: path -> file
    auto_cleanup,       \* config value 'auto_cleanup' ("True", "False", or "None" for null)
    inspection          \* last result of analyze_sp3_file, with what it printed

vars == << target_date, now, elapsedDays, gps, availability, prev_availability,
           gen, prev_gen, pc, optimal_product, product_type, filenames, j,
           result, attempts, hist, files, auto_cleanup, inspection >>

\* the output directory, the configuration and the last inspection
fsvars == << files, auto_cleanup, inspection >>

(***************************************************************************)
(* Bounds of the model                                                      *)
(***************************************************************************)
TicksPerHour == 2
MaxDayWalk == 800
MaxElapsedHours == 290
MaxEarlyHours == 4

TicksPerDay == 24 * TicksPerHour

(***************************************************************************)
(* Calendar arithmetic of datetime, as used by the program                  *)
(***************************************************************************)
IsLeap(y) == (y % 4 = 0) /\ ((y % 100 # 0) \/ (y % 400 = 0))

DaysInMonth(y, m) ==
    IF m = 2 THEN (IF IsLeap(y) THEN 29 ELSE 28)
    ELSE IF m \in {4, 6, 9, 11} THEN 30 ELSE 31

DaysBeforeYear(y) ==
    (y - 1) * 365 + ((y - 1) \div 4) - ((y - 1) \div 100) + ((y - 1) \div 400)

RECURSIVE DaysBeforeMonth(_, _)
DaysBeforeMonth(y, m) ==
    IF m = 1 THEN 0 ELSE DaysBeforeMonth(y, m - 1) + DaysInMonth(y, m - 1)

\* datetime.toordinal(): proleptic Gregorian ordinal of a date
ToOrdinal(d) == DaysBeforeYear(d.year) + DaysBeforeMonth(d.year, d.month) + d.day

\* date_obj.timetuple().tm_yday
tm_yday(d) == DaysBeforeMonth(d.year, d.month) + d.day

\* date + timedelta(days=1)
PlusOneDay(d) ==
    IF d.day < DaysInMonth(d.year, d.month)
    THEN [d EXCEPT !.day = d.day + 1]
    ELSE IF d.month < 12
         THEN [year |-> d.year, month |-> d.month + 1, day |-> 1]
         ELSE [year |-> d.year + 1, month |-> 1, day |-> 1]

\* date - timedelta(days=1)
MinusOneDay(d) ==
    IF d.day > 1
    THEN [d EXCEPT !.day = d.day - 1]
    ELSE IF d.month > 1
         THEN [year |-> d.year, month |-> d.month - 1,
               day |-> DaysInMonth(d.year, d.month - 1)]
         ELSE [year |-> d.year - 1, month |-> 12, day |-> 31]

\* gps_epoch(): 6 January 1980 00:00:00
gps_epoch == [year |-> 1980, month |-> 1, day |-> 6]

\* (date - gps_start).days for a date at midnight
DeltaDays(d) == ToOrdinal(d) - ToOrdinal(gps_epoch)

\* the clock as a datetime: now.date() (as an ordinal) and now.hour
NowOrdinal(t) == ToOrdinal(gps_epoch) + (t \div TicksPerDay)
\* variant: the hour rounded to the nearest hour instead of truncated
NowHour_rounded(t) == ((t % TicksPerDay) + 1) \div TicksPerHour

NowHour(t) == (t % TicksPerDay) \div TicksPerHour

\* the tick of midnight of a date
MidnightTick(d) == DeltaDays(d) * TicksPerDay

(***************************************************************************)
(* date_to_gps_week                                                         *)
(***************************************************************************)
\* variant: the day count taken from 1980-01-05
date_to_gps_week_shifted(date) ==
    [gps_week |-> (DeltaDays(date) + 1) \div 7,
     day_of_week |-> (DeltaDays(date) + 1) % 7,
     date |-> date]

date_to_gps_week(date) ==
    [gps_week |-> DeltaDays(date) \div 7,
     day_of_week |-> DeltaDays(date) % 7,
     date |-> date]

(***************************************************************************)
(* analyze_data_availability                                                *)
(***************************************************************************)
\* variant: ultra-rapid products taken as published after two hours
availability_thresholds_early == [final |-> 12 * 24, rapid |-> 24, ultra_rapid |-> 2]

availability_thresholds == [final |-> 12 * 24, rapid |-> 24, ultra_rapid |-> 3]

\* hours_elapsed is kept in ticks; h hours are h * TicksPerHour ticks
\* variant: a strict comparison with the threshold
AtLeastHours_strict(ticks, h) == ticks > h * TicksPerHour

AtLeastHours(ticks, h) == ticks >= h * TicksPerHour

\* variant: the final and rapid branches exchanged
analyze_data_availability_swapped(date, t) ==
    LET hours_elapsed == t - MidnightTick(date)
        base == [date_requested |-> date, hours_elapsed |-> hours_elapsed,
                 optimal_product |-> "None", data_unavailable |-> FALSE]
    IN  IF AtLeastHours(hours_elapsed, availability_thresholds.final)
        THEN [base EXCEPT !.optimal_product = "rapid"]
        ELSE IF AtLeastHours(hours_elapsed, availability_thresholds.rapid)
        THEN [base EXCEPT !.optimal_product = "final"]
        ELSE IF AtLeastHours(hours_elapsed, availability_thresholds.ultra_rapid)
        THEN [base EXCEPT !.optimal_product = "ultra_rapid"]
        ELSE [base EXCEPT !.data_unavailable = TRUE]

analyze_data_availability(date, t) ==
    LET hours_elapsed == t - MidnightTick(date)
        base == [date_requested |-> date, hours_elapsed |-> hours_elapsed,
                 optimal_product |-> "None", data_unavailable |-> FALSE]
    IN  IF AtLeastHours(hours_elapsed, availability_thresholds.final)
        THEN [base EXCEPT !.optimal_product = "final"]
        ELSE IF AtLeastHours(hours_elapsed, availability_thresholds.rapid)
        THEN [base EXCEPT !.optimal_product = "rapid"]
        ELSE IF AtLeastHours(hours_elapsed, availability_thresholds.ultra_rapid)
        THEN [base EXCEPT !.optimal_product = "ultra_rapid"]
        ELSE [base EXCEPT !.data_unavailable = TRUE]

NoAvailability ==
    [date_requested |-> gps_epoch, hours_elapsed |-> 0,
     optimal_product |-> "None", data_unavailable |-> FALSE, called |-> FALSE]

Called(a) == [date_requested |-> a.date_requested, hours_elapsed |-> a.hours_elapsed,
              optimal_product |-> a.optimal_product,
              data_unavailable |-> a.data_unavailable, called |-> TRUE]

(***************************************************************************)
(* generate_combined_sp3_filenames                                          *)
(***************************************************************************)
\* f"{n:02d}", f"{n:03d}", f"{n:04d}" for n >= 0
Pad2(n) == IF n < 10 THEN "0" \o ToString(n) ELSE ToString(n)
Pad3(n) == IF n < 10 THEN "00" \o ToString(n)
           ELSE IF n < 100 THEN "0" \o ToString(n) ELSE ToString(n)
Pad4(n) == IF n < 10 THEN "000" \o ToString(n)
           ELSE IF n < 100 THEN "00" \o ToString(n)
           ELSE IF n < 1000 THEN "0" \o ToString(n) ELSE ToString(n)

\* self.time_intervals, in priority order
\* variant: 30S ahead of 01S
time_intervals_swapped == << "30S", "01S", "05M", "15M" >>

time_intervals == << "01S", "30S", "05M", "15M" >>

RECURSIVE FlatMap(_, _)
FlatMap(F(_), s) == IF s = << >> THEN << >> ELSE F(Head(s)) \o FlatMap(F, Tail(s))

\* f"{code}_{year}{doy:03d}{hour}00_{span}_{interval}_ORB.SP3.gz"
\* A candidate keeps, next to its name, the fields the name was formatted from.
ModernName(code, year, doy, hour, span, interval) ==
    [name |-> code \o "_" \o ToString(year) \o Pad3(doy) \o hour \o "00_" \o span
              \o "_" \o interval \o "_ORB.SP3.gz",
     grammar |-> "modern", code |-> code, year |-> year, doy |-> doy,
     hour |-> hour, span |-> span, interval |-> interval, week |-> 0, dow |-> 0,
     base |-> code \o "_" \o ToString(year) \o Pad3(doy) \o hour \o "00_" \o span
              \o "_" \o interval \o "_ORB.SP3",
     compression |-> ".gz"]

\* f"{prefix}{gps_week:04d}{day_of_week}.sp3.Z", with "_{hour:02d}" for ultra-rapids
LegacyName(prefix, week, dow, hour) ==
    [name |-> prefix \o Pad4(week) \o ToString(dow)
              \o (IF hour = "" THEN "" ELSE "_" \o hour) \o ".sp3.Z",
     grammar |-> "legacy", code |-> prefix, year |-> 0, doy |-> 0,
     hour |-> hour, span |-> "", interval |-> "", week |-> week, dow |-> dow,
     base |-> prefix \o Pad4(week) \o ToString(dow)
              \o (IF hour = "" THEN "" ELSE "_" \o hour) \o ".sp3",
     compression |-> ".Z"]

ModernNames(codes, year, doy, hour, span, interval) ==
    [i \in 1..Len(codes) |-> ModernName(codes[i], year, doy, hour, span, interval)]

\* hours h of a descending grid with h <= current_hour - 3
\* variant: no publication delay
DelayedHours_no_delay(grid, current_hour) == SelectSeq(grid, LAMBDA h : h <= current_hour)

DelayedHours(grid, current_hour) == SelectSeq(grid, LAMBDA h : h <= current_hour - 3)

\* `for h in [18, 12]` of the modern names of yesterday evening
\* variant: the older hour first
yesterday_hours_reversed == << 12, 18 >>

yesterday_hours == << 18, 12 >>

\* `for h in [21, 18, 15, 12]` of the igu names of yesterday
\* variant: the two hours of the legacy-era branch
yesterday_legacy_hours_two == << 21, 18 >>

yesterday_legacy_hours == << 21, 18, 15, 12 >>

\* variant: the COD code ahead of the IGS code
ModernFinal_cod_first(year, doy) ==
    FlatMap(LAMBDA interval :
              ModernNames(<< "COD0MGXFIN", "IGS0OPSFIN", "GFZ0MGXFIN", "WUM0MGXFIN" >>,
                          year, doy, "00", "01D", interval),
            time_intervals)

ModernFinal(year, doy) ==
    FlatMap(LAMBDA interval :
              ModernNames(<< "IGS0OPSFIN", "COD0MGXFIN", "GFZ0MGXFIN", "WUM0MGXFIN" >>,
                          year, doy, "00", "01D", interval),
            time_intervals)

ModernRapid(year, doy) ==
    FlatMap(LAMBDA interval :
              ModernNames(<< "IGS0OPSRAP", "COD0OPSRAP", "GFZ0OPSRAP", "JPL0OPSRAP",
                             "IGR0OPSRAP" >>,
                          year, doy, "00", "01D", interval),
            time_intervals)

ModernUltraRapid(date_obj, gw, t) ==
    LET year == date_obj.year
        doy == tm_yday(date_obj)
        today == ToOrdinal(date_obj) = NowOrdinal(t)
        available_hours == IF today THEN DelayedHours(<< 18, 12, 6, 0 >>, NowHour(t))
                           ELSE << 18, 12, 6, 0 >>
        yesterday == MinusOneDay(date_obj)
        yesterday_doy == tm_yday(date_to_gps_week(yesterday).date)
        yesterday_block ==
            IF today /\ available_hours = << >>
            THEN FlatMap(LAMBDA h :
                   FlatMap(LAMBDA interval :
                             ModernNames(<< "IGS0OPSULT", "COD0OPSULT", "GFZ0OPSULT" >>,
                                         year, yesterday_doy, Pad2(h), "02D", interval),
                           time_intervals),
                   yesterday_hours)
            ELSE << >>
        hour_block ==
            FlatMap(LAMBDA h :
              FlatMap(LAMBDA interval :
                        ModernNames(<< "IGS0OPSULT", "COD0OPSULT", "GFZ0OPSULT",
                                       "JPL0OPSULT" >>,
                                    year, doy, Pad2(h), "02D", interval)
                        \o ModernNames(<< "IGS0OPSULT", "COD0OPSULT", "GFZ0OPSULT" >>,
                                       year, doy, Pad2(h), "01D", interval),
                      time_intervals),
              available_hours)
        legacy_hours == IF today
                        THEN DelayedHours(<< 21, 18, 15, 12, 9, 6, 3, 0 >>, NowHour(t))
                        ELSE << 21, 18, 15, 12, 9, 6, 3, 0 >>
        gy == date_to_gps_week(yesterday)
        legacy_yesterday ==
            IF today /\ legacy_hours = << >>
            THEN FlatMap(LAMBDA h : << LegacyName("igu", gy.gps_week, gy.day_of_week,
                                                  Pad2(h)) >>,
                         yesterday_legacy_hours)
            ELSE << >>
        legacy_block ==
            FlatMap(LAMBDA h : << LegacyName("igu", gw.gps_week, gw.day_of_week, Pad2(h)) >>,
                    legacy_hours)
    IN  yesterday_block \o hour_block \o legacy_yesterday \o legacy_block

LegacyFinal(gw) ==
    FlatMap(LAMBDA center : << LegacyName(center, gw.gps_week, gw.day_of_week, "") >>,
            << "cod", "gfz", "whu" >>)
    \o << LegacyName("igs", gw.gps_week, gw.day_of_week, "") >>

LegacyRapid(gw) ==
    FlatMap(LAMBDA center : << LegacyName(center \o "r", gw.gps_week, gw.day_of_week, "") >>,
            << "cod", "gfz", "jpl" >>)
    \o << LegacyName("igr", gw.gps_week, gw.day_of_week, "") >>

LegacyUltraRapid(date_obj, gw, t) ==
    LET today == ToOrdinal(date_obj) = NowOrdinal(t)
        hours == IF today
                 THEN DelayedHours(<< 21, 18, 15, 12, 9, 6, 3, 0 >>, NowHour(t))
                 ELSE << 21, 18, 15, 12, 9, 6, 3, 0 >>
        gy == date_to_gps_week(MinusOneDay(date_obj))
        igu == FlatMap(LAMBDA h : << LegacyName("igu", gw.gps_week, gw.day_of_week,
                                                Pad2(h)) >>, hours)
        igu_yesterday ==
            IF today /\ igu = << >>
            THEN FlatMap(LAMBDA h : << LegacyName("igu", gy.gps_week, gy.day_of_week,
                                                  Pad2(h)) >>, << 21, 18 >>)
            ELSE << >>
        others ==
            FlatMap(LAMBDA h :
                      FlatMap(LAMBDA center :
                                << LegacyName(center \o "u", gw.gps_week, gw.day_of_week,
                                              Pad2(h)) >>,
                              << "cod", "gfz" >>),
                    << 18, 12, 6, 0 >>)
    IN  igu \o igu_yesterday \o others

\* variant: the transition one week late
FirstModernWeek_late == 2238 + 1

\* First GPS week of the modern (IGS20 long-name) format
FirstModernWeek == 2238

generate_combined_sp3_filenames(date, ptype, t) ==
    LET gw == date_to_gps_week(date)
        date_obj == gw.date
        year == date_obj.year
        doy == tm_yday(date_obj)
        use_new_format == gw.gps_week >= FirstModernWeek
        names ==
            IF use_new_format
            THEN CASE ptype = "final" -> ModernFinal(year, doy)
                   [] ptype = "rapid" -> ModernRapid(year, doy)
                   [] ptype = "ultra_rapid" -> ModernUltraRapid(date_obj, gw, t)
                   [] OTHER -> << >>
            ELSE CASE ptype = "final" -> LegacyFinal(gw)
                   [] ptype = "rapid" -> LegacyRapid(gw)
                   [] ptype = "ultra_rapid" -> LegacyUltraRapid(date_obj, gw, t)
                   [] OTHER -> << >>
    IN  [filenames |-> names, gps_week |-> gw.gps_week, use_new_format |-> use_new_format]

(***************************************************************************)
(* smart_download_sp3 / download_product_type / download_file               *)
(***************************************************************************)
\* a path of the output directory: the file name without its last suffix, and
\* that suffix when it is .gz or .Z ("" otherwise)
NoPath == [base |-> "", compression |-> ""]

PathOf(candidate) == [base |-> candidate.base, compression |-> candidate.compression]

\* Path.with_suffix('') of a compressed path
with_suffix_empty(path) == [base |-> path.base, compression |-> ""]

NoResult == [kind |-> "None", name |-> "", product_type |-> "None", path |-> NoPath]

\* smart_download_sp3: `if availability['data_unavailable']: return None`
\* variant: the guard left out
EarlyReturn_never(a) == FALSE

EarlyReturn(a) == a.data_unavailable

\* smart_download_sp3: the class tried after the attempts in `tried` all failed
\* variant: the optimal class tried again, up to four attempts
Fallback_retries(optimal, tried) ==
    IF Len(tried) < 4 THEN optimal ELSE "None"

\* variant: ultra_rapid degrades straight to final
Fallback_skips_rapid(optimal, tried) ==
    IF optimal = "ultra_rapid" /\ tried = << "ultra_rapid" >> THEN "final"
    ELSE IF optimal = "rapid" /\ tried = << "rapid" >> THEN "final"
    ELSE "None"

Fallback(optimal, tried) ==
    IF optimal = "ultra_rapid"
    THEN (IF tried = << "ultra_rapid" >> THEN "rapid"
          ELSE IF tried = << "ultra_rapid", "rapid" >> THEN "final"
          ELSE "None")
    ELSE IF optimal = "rapid"
    THEN (IF tried = << "rapid" >> THEN "final" ELSE "None")
    ELSE "None"

\* Answers of session.head(): an HTTP status, or 0 for a raised network error
NetworkError == 0
Answers == { 200, 404, 401, 503, NetworkError }

\* download_product_type: what the probe loop does with an answer
\* variant: a 401 handled like a 404
OnStatus_401_continues(status) ==
    IF status = 200 THEN "fetch" ELSE "continue"

\* variant: any status other than 200 and 404 leaves the loop
OnStatus_other_breaks(status) ==
    IF status = 200 THEN "fetch"
    ELSE IF status = 404 THEN "continue"
    ELSE "break"

OnStatus(status) ==
    IF status = NetworkError THEN "continue"
    ELSE IF status = 200 THEN "fetch"
    ELSE IF status = 404 THEN "continue"
    ELSE IF status = 401 THEN "break"
    ELSE "continue"

(***************************************************************************)
(* The output directory.  A file is its text, a sequence of lines, each a   *)
(* sequence of characters; `compressed` tells a compressed archive (whose   *)
(* `lines` are what it decompresses to) from a text file.                   *)
(***************************************************************************)
EmptyDir == [p \in {} |-> 0]

WriteFile(fs, path, f) ==
    [p \in DOMAIN fs \cup { path } |-> IF p = path THEN f ELSE fs[p]]

Unlink(fs, path) == [p \in DOMAIN fs \ { path } |-> fs[p]]

Exists(fs, path) == path \in DOMAIN fs

\* what the archive, the disk and the decompressors may do to one fetch
FetchOutcomes == { "get_failed", "open_failed", "write_failed", "decompressed",
                   "gz_read_error", "unlink_failed", "tool_missing", "tool_failed",
                   "tool_no_output" }

\* the outcomes that can happen to a candidate: unlink_failed needs the unlink
\* to be called, the tool_ outcomes are those of the external uncompress
OutcomesFor(candidate, cleanup) ==
    { "get_failed", "open_failed", "write_failed", "decompressed" }
    \cup (IF candidate.compression = ".gz"
          THEN { "gz_read_error" }
               \cup (IF cleanup # "False" THEN { "unlink_failed" } ELSE {})
          ELSE { "tool_missing", "tool_failed", "tool_no_output" })

\* `auto_cleanup is None or auto_cleanup`
\* variant: the compressed file always kept
CleanupEnabled_never(cleanup) == FALSE

CleanupEnabled(cleanup) == cleanup = "None" \/ cleanup = "True"

\* decompress_file: the returned path and the directory it leaves.  When
\* f_in.read() raises, the output file has already been created empty.
decompress_file(compressed_path, outcome, cleanup, fs) ==
    LET decompressed_path == with_suffix_empty(compressed_path)
        written == WriteFile(fs, decompressed_path,
                             [compressed |-> FALSE, lines |-> fs[compressed_path].lines])
    IN  IF outcome = "gz_read_error"
        THEN [path |-> compressed_path,
              files |-> WriteFile(fs, decompressed_path,
                                  [compressed |-> FALSE, lines |-> << >>])]
        ELSE IF CleanupEnabled(cleanup)
        THEN (IF outcome = "unlink_failed"
              THEN [path |-> compressed_path, files |-> written]
              ELSE [path |-> decompressed_path,
                    files |-> Unlink(written, compressed_path)])
        ELSE [path |-> decompressed_path, files |-> written]

\* decompress_unix_z: `uncompress` replaces the .Z file by its content when it
\* succeeds and leaves the directory as it was otherwise
decompress_unix_z(compressed_path, outcome, fs) ==
    LET decompressed_path == with_suffix_empty(compressed_path)
        ran == outcome # "tool_missing"
        returncode == IF outcome \in { "decompressed", "tool_no_output" } THEN 0 ELSE 1
        after == IF outcome = "decompressed"
                 THEN WriteFile(Unlink(fs, compressed_path), decompressed_path,
                                [compressed |-> FALSE,
                                 lines |-> fs[compressed_path].lines])
                 ELSE fs
    IN  IF ran /\ returncode = 0 /\ Exists(after, decompressed_path)
        THEN [path |-> decompressed_path, files |-> after]
        ELSE [path |-> compressed_path, files |-> after]

\* variant: a decompression that did not give the decompressed file is a failure
download_file_strict(candidate, ptype, outcome, body, cleanup, fs) ==
    LET output_path == PathOf(candidate)
        stored == WriteFile(fs, output_path, [compressed |-> TRUE, lines |-> body])
        d == IF candidate.compression = ".gz"
             THEN decompress_file(output_path, outcome, cleanup, stored)
             ELSE decompress_unix_z(output_path, outcome, stored)
    IN  IF outcome \in { "get_failed", "open_failed", "write_failed" }
           \/ d.path = output_path
        THEN [ret |-> NoResult, files |-> fs]
        ELSE [ret |-> [kind |-> "decompressed", name |-> candidate.name,
                       product_type |-> ptype, path |-> d.path],
              files |-> d.files]

\* download_file: None when the GET or the write fails; otherwise the path the
\* decompression step returns (the decompressed file, or the compressed one
\* when decompression fails).  open() failing leaves nothing behind, a write
\* failing midway leaves a truncated file.
download_file(candidate, ptype, outcome, body, cleanup, fs) ==
    LET output_path == PathOf(candidate)
        stored == WriteFile(fs, output_path, [compressed |-> TRUE, lines |-> body])
        d == IF candidate.compression = ".gz"
             THEN decompress_file(output_path, outcome, cleanup, stored)
             ELSE decompress_unix_z(output_path, outcome, stored)
    IN  IF outcome \in { "get_failed", "open_failed" }
        THEN [ret |-> NoResult, files |-> fs]
        ELSE IF outcome = "write_failed"
        THEN [ret |-> NoResult,
              files |-> WriteFile(fs, output_path,
                                  [compressed |-> TRUE, lines |-> << >>])]
        ELSE [ret |-> [kind |-> IF d.path = output_path THEN "compressed"
                                ELSE "decompressed",
                       name |-> candidate.name, product_type |-> ptype,
                       path |-> d.path],
              files |-> d.files]

(***************************************************************************)
(* analyze_sp3_file                                                         *)
(***************************************************************************)
Letters == { "A", "B", "C", "D", "E", "F", "G", "H", "I", "J", "K", "L", "M",
             "N", "O", "P", "Q", "R", "S", "T", "U", "V", "W", "X", "Y", "Z",
             "a", "b", "c", "d", "e", "f", "g", "h", "i", "j", "k", "l", "m",
             "n", "o", "p", "q", "r", "s", "t", "u", "v", "w", "x", "y", "z" }

Digits == { "0", "1", "2", "3", "4", "5", "6", "7", "8", "9" }

Whitespace == { " ", "\n", "\t", "\r" }

isalpha(ch) == ch \in Letters

isdigit(ch) == ch \in Digits

\* str.upper() of one character
upper(ch) ==
    CASE ch = "a" -> "A" [] ch = "b" -> "B" [] ch = "c" -> "C" [] ch = "d" -> "D"
      [] ch = "e" -> "E" [] ch = "f" -> "F" [] ch = "g" -> "G" [] ch = "h" -> "H"
      [] ch = "i" -> "I" [] ch = "j" -> "J" [] ch = "k" -> "K" [] ch = "l" -> "L"
      [] ch = "m" -> "M" [] ch = "n" -> "N" [] ch = "o" -> "O" [] ch = "p" -> "P"
      [] ch = "q" -> "Q" [] ch = "r" -> "R" [] ch = "s" -> "S" [] ch = "t" -> "T"
      [] ch = "u" -> "U" [] ch = "v" -> "V" [] ch = "w" -> "W" [] ch = "x" -> "X"
      [] ch = "y" -> "Y" [] ch = "z" -> "Z" [] OTHER -> ch

RECURSIVE lstrip(_)
lstrip(text) ==
    IF text # << >> /\ Head(text) \in Whitespace THEN lstrip(Tail(text)) ELSE text

RECURSIVE rstrip(_)
rstrip(text) ==
    IF text # << >> /\ text[Len(text)] \in Whitespace
    THEN rstrip(SubSeq(text, 1, Len(text) - 1))
    ELSE text

strip(text) == lstrip(rstrip(text))

\* `line[9:]`: the column at which the satellite tokens start
\* variant: one column to the left
sat_section_start_left == 9 - 1

sat_section_start == 9

\* `lines[:200]`: the number of lines searched for a header
\* variant: one line more
header_lines_more == 200 + 1

header_lines == 200

\* the valid tokens of one line: `sat_section[pos:pos+3]` for pos = 0, 3, 6, ...
\* with pos + 2 < len(sat_section), a letter followed by two digits
sat_ids(line) ==
    IF line = << >> \/ Head(line) # "+" THEN {}
    ELSE LET sat_section == strip(SubSeq(line, sat_section_start + 1, Len(line)))
             starts == { pos \in 0..(Len(sat_section) - 1) :
                           pos % 3 = 0 /\ pos + 2 < Len(sat_section) }
             tokens == { SubSeq(sat_section, pos + 1, pos + 3) : pos \in starts }
         IN  { sat_id \in tokens :
                 isalpha(sat_id[1]) /\ isdigit(sat_id[2]) /\ isdigit(sat_id[3]) }

NoInspection == [called |-> FALSE, path |-> NoPath, ok |-> FALSE,
                 total_satellites |-> 0, constellations |-> {},
                 satellites |-> EmptyDir]

Failed(path) == [called |-> TRUE, path |-> path, ok |-> FALSE,
                 total_satellites |-> 0, constellations |-> {},
                 satellites |-> EmptyDir]

\* analyze_sp3_file: the returned flag with the counts it prints; read_error is
\* an exception raised while the file is opened or read
analyze_sp3_file(path, fs, read_error) ==
    IF ~Exists(fs, path) THEN Failed(path)
    ELSE IF path.compression = ".gz" \/ path.compression = ".Z" THEN Failed(path)
    ELSE IF read_error THEN Failed(path)
    ELSE LET lines == fs[path].lines
             searched == SubSeq(lines, 1, IF Len(lines) < header_lines THEN Len(lines)
                                          ELSE header_lines)
             all_satellites == UNION { sat_ids(searched[i]) : i \in 1..Len(searched) }
             constellations == { upper(sat_id[1]) : sat_id \in all_satellites }
         IN  IF lines = << >> THEN Failed(path)
             ELSE [called |-> TRUE, path |-> path,
                   ok |-> Cardinality(all_satellites) # 0,
                   total_satellites |-> Cardinality(all_satellites),
                   constellations |-> constellations,
                   satellites |->
                       [c \in constellations |->
                           Cardinality({ sat_id \in all_satellites :
                                           upper(sat_id[1]) = c })]]

(***************************************************************************)
(* File contents                                                            *)
(***************************************************************************)
FirstLine ==
    << "#", "c", "P", "2", "0", "2", "4", " ", " ", "3", " ", " ", "1", " ",
       " ", "0", " ", " ", "0", "\n" >>

\* the header line `+  32   G01G02R01R02...`: the tokens start at column 8
HeaderLine8 ==
    << "+", " ", " ", "3", "2", " ", " ", " ", "G", "0", "1", "G", "0", "2",
       "R", "0", "1", "R", "0", "2", ".", ".", ".", "\n" >>

\* the header line of the SP3 format: the tokens start at column 9
HeaderLine9 ==
    << "+", " ", " ", " ", "3", "2", " ", " ", " ", "G", "0", "1", "G", "0",
       "2", "R", "0", "1", "R", "0", "2", ".", ".", ".", "\n" >>

ContinuationLine ==
    << "+", " ", " ", " ", " ", " ", " ", " ", " ", "G", "0", "1", "R", "0",
       "5", " ", " ", "0", " ", " ", "0", "\n" >>

LowerCaseLine ==
    << "+", " ", " ", " ", " ", "2", " ", " ", " ", "g", "0", "1", "G", "0",
       "1", "\n" >>

AccuracyLine ==
    << "+", "+", " ", " ", " ", " ", " ", " ", " ", " ", " ", "7", " ", " ",
       "7", " ", " ", "8", " ", " ", "8", "\n" >>

Filler(n) == [i \in 1..n |-> << "*", "\n" >>]

HeaderAt8 == << FirstLine, HeaderLine8, AccuracyLine >>
HeaderAt9 == << FirstLine, HeaderLine9, AccuracyLine >>
TwoHeaderLines == << FirstLine, HeaderLine9, ContinuationLine, AccuracyLine >>
LowerCase == << FirstLine, LowerCaseLine >>
EmptyFile == << >>
NoHeader == << FirstLine, AccuracyLine >>
BarePlus == << << "+", "\n" >> >>
HeaderAtLine200 == Filler(199) \o << HeaderLine9 >>
HeaderAtLine201 == Filler(200) \o << HeaderLine9 >>

Bodies == { HeaderAt8, HeaderAt9, TwoHeaderLines, LowerCase, EmptyFile, NoHeader,
            BarePlus, HeaderAtLine200, HeaderAtLine201 }

(***************************************************************************)
(* State after construction                                                 *)
(***************************************************************************)
NoDate == [year |-> 0, month |-> 0, day |-> 0]
NoGps == [gps_week |-> 0, day_of_week |-> 0, date |-> NoDate]
NoGen == [product_type |-> "None", at |-> 0, filenames |-> << >>, gps_week |-> 0,
          use_new_format |-> FALSE, called |-> FALSE]

AttemptHist == [stop_at |-> 0, last_probed |-> 0, probes |-> 0, last_answer |-> -1,
                first200 |-> 0, fetched |-> 0, only404 |-> TRUE, attempt_result |-> NoResult,
                outcome |-> "None", generated_at |-> 0, fetches |-> 0]

NoHist == [ticks |-> 0, seen401 |-> "None", any_probe |-> FALSE, any_fetch |-> FALSE,
           all404 |-> {}, answered200 |-> {}, fetched_ok |-> {}, failed |-> {},
           attempt |-> AttemptHist]

\* Target dates: the last day of the legacy format (GPS week 2237, day 6), the
\* first day of the modern one (week 2238, day 0), a 1 January, a 1 March of a
\* leap year and a 31 December of a leap year
Dates == { [year |-> 2022, month |-> 11, day |-> 26],
           [year |-> 2022, month |-> 11, day |-> 27],
           [year |-> 2023, month |-> 1, day |-> 1],
           [year |-> 2024, month |-> 3, day |-> 1],
           [year |-> 2024, month |-> 12, day |-> 31] }

Idle ==
    /\ elapsedDays = 0
    /\ gps = NoGps
    /\ availability = NoAvailability
    /\ prev_availability = NoAvailability
    /\ gen = NoGen
    /\ prev_gen = NoGen
    /\ pc = "idle"
    /\ optimal_product = "None"
    /\ product_type = "None"
    /\ filenames = << >>
    /\ j = 0
    /\ result = NoResult
    /\ attempts = << >>
    /\ hist = NoHist
    /\ files = EmptyDir
    /\ inspection = NoInspection

\* default_config: "auto_cleanup": True
DefaultConfig == auto_cleanup = "True"

(***************************************************************************)
(* Specification SpecGps: date_to_gps_week along a walk over the calendar   *)
(* that starts at the GPS epoch and counts the days it walks                *)
(***************************************************************************)
GpsInit ==
    /\ Idle
    /\ target_date = gps_epoch
    /\ DefaultConfig
    /\ now = 0

NextDay ==
    /\ elapsedDays >= 0
    /\ elapsedDays < MaxDayWalk
    /\ target_date' = PlusOneDay(target_date)
    /\ elapsedDays' = elapsedDays + 1
    /\ gps' = NoGps
    /\ UNCHANGED << now, availability, prev_availability, gen, prev_gen, pc,
                    optimal_product, product_type, filenames, j, result, attempts, hist >>
    /\ UNCHANGED fsvars

PreviousDay ==
    /\ elapsedDays <= 0
    /\ elapsedDays > -MaxDayWalk
    /\ target_date' = MinusOneDay(target_date)
    /\ elapsedDays' = elapsedDays - 1
    /\ gps' = NoGps
    /\ UNCHANGED << now, availability, prev_availability, gen, prev_gen, pc,
                    optimal_product, product_type, filenames, j, result, attempts, hist >>
    /\ UNCHANGED fsvars

ConvertDate ==
    /\ gps' = date_to_gps_week(target_date)
    /\ UNCHANGED << target_date, now, elapsedDays, availability, prev_availability, gen,
                    prev_gen, pc, optimal_product, product_type, filenames, j, result,
                    attempts, hist >>
    /\ UNCHANGED fsvars

GpsNext == NextDay \/ PreviousDay \/ ConvertDate

SpecGps == GpsInit /\ [][GpsNext]_vars

(***************************************************************************)
(* Specification SpecClassify: repeated calls of analyze_data_availability  *)
(* for one target date, each reading a clock that has not gone back         *)
(***************************************************************************)
\* how far the clock has moved between two readings, in ticks
ClockSteps == { 0, 1, TicksPerHour, 21 * TicksPerHour, 24 * TicksPerHour,
                285 * TicksPerHour }

ClassifyInit ==
    /\ Idle
    /\ target_date \in Dates
    /\ DefaultConfig
    /\ now = MidnightTick(target_date) - MaxEarlyHours * TicksPerHour

Analyze(step) ==
    /\ now + step - MidnightTick(target_date) <= MaxElapsedHours * TicksPerHour
    /\ now' = now + step
    /\ prev_availability' = availability
    /\ availability' = Called(analyze_data_availability(target_date, now'))
    /\ UNCHANGED << target_date, elapsedDays, gps, gen, prev_gen, pc, optimal_product,
                    product_type, filenames, j, result, attempts, hist >>
    /\ UNCHANGED fsvars

ClassifyNext == \E step \in ClockSteps : Analyze(step)

SpecClassify == ClassifyInit /\ [][ClassifyNext]_vars

(***************************************************************************)
(* Specification SpecGen: repeated calls of generate_combined_sp3_filenames *)
(* for one target date, from the evening before it to the day after it      *)
(***************************************************************************)
MaxGenHours == 27

GenSteps == { 0, 1, TicksPerHour }

GenInit ==
    /\ Idle
    /\ target_date \in Dates
    /\ DefaultConfig
    /\ now = MidnightTick(target_date) - TicksPerHour

Generate(ptype, step) ==
    /\ now + step - MidnightTick(target_date) <= MaxGenHours * TicksPerHour
    /\ now' = now + step
    /\ prev_gen' = gen
    /\ LET g == generate_combined_sp3_filenames(target_date, ptype, now')
       IN  gen' = [product_type |-> ptype, at |-> now', filenames |-> g.filenames,
                   gps_week |-> g.gps_week, use_new_format |-> g.use_new_format,
                   called |-> TRUE]
    /\ UNCHANGED << target_date, elapsedDays, gps, availability, prev_availability, pc,
                    optimal_product, product_type, filenames, j, result, attempts, hist >>
    /\ UNCHANGED fsvars

GenNext == \E ptype \in { "final", "rapid", "ultra_rapid" }, step \in GenSteps :
               Generate(ptype, step)

SpecGen == GenInit /\ [][GenNext]_vars

(***************************************************************************)
(* Specification Spec: one run of smart_download_sp3 against an archive     *)
(* that may answer each request in any way, while the clock may advance     *)
(***************************************************************************)
MaxRunTicks == 1

\* hours between midnight of the target date and the start of the run
StartHours == { -1, 2, 23, 287, 300 }

Init ==
    /\ Idle
    /\ target_date \in Dates
    /\ DefaultConfig
    /\ \E h \in StartHours, f \in { 0, TicksPerHour - 1 } :
           now = MidnightTick(target_date) + h * TicksPerHour + f

ClockTick ==
    /\ pc # "done"
    /\ hist.ticks < MaxRunTicks
    /\ now' = now + 1
    /\ hist' = [hist EXCEPT !.ticks = @ + 1]
    /\ UNCHANGED << target_date, elapsedDays, gps, availability, prev_availability, gen,
                    prev_gen, pc, optimal_product, product_type, filenames, j, result,
                    attempts >>
    /\ UNCHANGED fsvars

\* smart_download_sp3, up to the first call of download_product_type
SmartDownloadStart ==
    /\ pc = "idle"
    /\ prev_availability' = availability
    /\ availability' = Called(analyze_data_availability(target_date, now))
    /\ IF EarlyReturn(availability')
       THEN /\ pc' = "done"
            /\ result' = NoResult
            /\ UNCHANGED << optimal_product, product_type >>
       ELSE /\ pc' = "call"
            /\ optimal_product' = availability'.optimal_product
            /\ product_type' = availability'.optimal_product
            /\ UNCHANGED result
    /\ UNCHANGED << target_date, now, elapsedDays, gps, gen, prev_gen, filenames, j,
                    attempts, hist >>
    /\ UNCHANGED fsvars

\* download_product_type, up to the first probe
CallDownloadProductType ==
    /\ pc = "call"
    /\ attempts' = Append(attempts, product_type)
    /\ filenames' = generate_combined_sp3_filenames(target_date, product_type, now).filenames
    /\ j' = 1
    /\ hist' = [hist EXCEPT !.attempt = [AttemptHist EXCEPT !.generated_at = now]]
    /\ pc' = "probe"
    /\ UNCHANGED << target_date, now, elapsedDays, gps, availability, prev_availability,
                    gen, prev_gen, optimal_product, product_type, result >>
    /\ UNCHANGED fsvars

\* one turn of the probe loop: session.head() answers `status`
Probe(status) ==
    /\ pc = "probe"
    /\ j <= Len(filenames)
    /\ LET do == OnStatus(status)
           seen == [hist EXCEPT
                      !.any_probe = TRUE,
                      !.seen401 = IF status = 401 /\ @ = "None" THEN product_type ELSE @,
                      !.answered200 = IF status = 200 THEN @ \cup { product_type } ELSE @,
                      !.attempt.probes = @ + 1,
                      !.attempt.last_probed = j,
                      !.attempt.last_answer = status,
                      !.attempt.only404 = @ /\ status = 404,
                      !.attempt.stop_at = IF status = 401 /\ @ = 0 THEN j ELSE @,
                      !.attempt.first200 = IF status = 200 /\ @ = 0 THEN j ELSE @]
       IN  IF do = "fetch"
           THEN /\ pc' = "fetch"
                /\ hist' = seen
                /\ UNCHANGED j
           ELSE IF do = "break"
           THEN /\ pc' = "returned"
                /\ hist' = [seen EXCEPT !.attempt.attempt_result = NoResult]
                /\ UNCHANGED j
           ELSE /\ pc' = "probe"
                /\ hist' = seen
                /\ j' = j + 1
    /\ UNCHANGED << target_date, now, elapsedDays, gps, availability, prev_availability,
                    gen, prev_gen, optimal_product, product_type, filenames, result,
                    attempts >>
    /\ UNCHANGED fsvars

\* the probe loop ends with the list: download_product_type returns None
ListExhausted ==
    /\ pc = "probe"
    /\ j > Len(filenames)
    /\ pc' = "returned"
    /\ hist' = [hist EXCEPT
                  !.attempt.attempt_result = NoResult,
                  !.all404 = IF hist.attempt.only404 THEN @ \cup { product_type } ELSE @]
    /\ UNCHANGED << target_date, now, elapsedDays, gps, availability, prev_availability,
                    gen, prev_gen, optimal_product, product_type, filenames, j, result,
                    attempts >>
    /\ UNCHANGED fsvars

\* `return self.download_file(file_url, filename)` for the candidate answering 200
Fetch(outcome, body) ==
    /\ pc = "fetch"
    /\ outcome \in OutcomesFor(filenames[j], auto_cleanup)
    /\ pc' = "returned"
    /\ LET r == download_file(filenames[j], product_type, outcome, body, auto_cleanup,
                              files)
       IN  /\ hist' = [hist EXCEPT
                        !.any_fetch = TRUE,
                        !.fetched_ok = IF r.ret # NoResult
                                       THEN @ \cup { product_type } ELSE @,
                        !.attempt.fetched = j,
                        !.attempt.fetches = @ + 1,
                        !.attempt.outcome = outcome,
                        !.attempt.attempt_result = r.ret]
           /\ files' = r.files
    /\ UNCHANGED << target_date, now, elapsedDays, gps, availability, prev_availability,
                    gen, prev_gen, optimal_product, product_type, filenames, j, result,
                    attempts, auto_cleanup, inspection >>

\* smart_download_sp3 after download_product_type has returned
AttemptReturned ==
    /\ pc = "returned"
    /\ IF hist.attempt.attempt_result # NoResult
       THEN /\ result' = hist.attempt.attempt_result
            /\ pc' = "done"
            /\ hist' = hist
            /\ UNCHANGED product_type
       ELSE LET next == Fallback(optimal_product, attempts)
            IN  /\ hist' = [hist EXCEPT !.failed = @ \cup { product_type }]
                /\ IF next = "None"
                   THEN /\ result' = NoResult
                        /\ pc' = "done"
                        /\ UNCHANGED product_type
                   ELSE /\ product_type' = next
                        /\ pc' = "call"
                        /\ UNCHANGED result
    /\ UNCHANGED << target_date, now, elapsedDays, gps, availability, prev_availability,
                    gen, prev_gen, optimal_product, filenames, j, attempts >>
    /\ UNCHANGED fsvars

\* The run leaves no truncated file behind (a failed write is taken at open());
\* SpecFile covers the write failing midway.
RunOutcomes == FetchOutcomes \ { "write_failed" }

Next ==
    \/ ClockTick
    \/ SmartDownloadStart
    \/ CallDownloadProductType
    \/ \E status \in Answers : Probe(status)
    \/ ListExhausted
    \/ \E outcome \in RunOutcomes : Fetch(outcome, HeaderAt9)
    \/ AttemptReturned

Spec == Init /\ [][Next]_vars

(***************************************************************************)
(* Specification SpecLive: the run under fair scheduling.  The program is   *)
(* sequential: each statement runs once the one before it has returned, and *)
(* session.head (timeout=8), session.get (timeout=120) and the uncompress   *)
(* subprocess (timeout=60) return or raise.  The clock is under no          *)
(* obligation to advance.                                                   *)
(***************************************************************************)
LiveDates == { [year |-> 2022, month |-> 11, day |-> 26],
               [year |-> 2024, month |-> 3, day |-> 1] }

LiveStartHours == { -1, 2, 287 }

LiveInit ==
    /\ Idle
    /\ target_date \in LiveDates
    /\ DefaultConfig
    /\ \E h \in LiveStartHours, f \in { 0, TicksPerHour - 1 } :
           now = MidnightTick(target_date) + h * TicksPerHour + f

\* the steps of the program itself
RunStep ==
    \/ SmartDownloadStart
    \/ CallDownloadProductType
    \/ \E status \in Answers : Probe(status)
    \/ ListExhausted
    \/ \E outcome \in RunOutcomes : Fetch(outcome, HeaderAt9)
    \/ AttemptReturned

LiveNext == ClockTick \/ RunStep

SpecLive == LiveInit /\ [][LiveNext]_vars /\ WF_vars(RunStep)

(***************************************************************************)
(* Specification SpecFile: the first candidate of the optimal class answers *)
(* 200, download_file fetches and decompresses it under any configuration   *)
(* and with any content, and analyze_sp3_file inspects the paths involved   *)
(***************************************************************************)
FileStartHours == { 10, 300 }

FileInit ==
    /\ Idle
    /\ target_date \in Dates
    /\ auto_cleanup \in { "True", "False", "None" }
    /\ \E h \in FileStartHours : now = MidnightTick(target_date) + h * TicksPerHour

\* analyze_sp3_file(file_path) on the path of the candidate or on the path of
\* its decompressed file
AnalyzeFile(decompressed, read_error) ==
    /\ pc \in { "fetch", "returned" }
    /\ LET file_path == IF decompressed THEN with_suffix_empty(PathOf(filenames[j]))
                        ELSE PathOf(filenames[j])
       IN  inspection' = analyze_sp3_file(file_path, files, read_error)
    /\ UNCHANGED << target_date, now, elapsedDays, gps, availability, prev_availability,
                    gen, prev_gen, pc, optimal_product, product_type, filenames, j,
                    result, attempts, hist, files, auto_cleanup >>

FileNext ==
    \/ SmartDownloadStart
    \/ CallDownloadProductType
    \/ Probe(200)
    \/ \E outcome \in FetchOutcomes, body \in Bodies : Fetch(outcome, body)
    \/ \E decompressed \in BOOLEAN, read_error \in BOOLEAN :
           AnalyzeFile(decompressed, read_error)

SpecFile == FileInit /\ [][FileNext]_vars

(***************************************************************************)
(* Properties                                                               *)
(***************************************************************************)
LastAttempt == attempts[Len(attempts)]

\* C1 (as claimed): once a probe has answered 401 the request is over: the
\* class that saw the 401 is the last one attempted, and nothing is probed,
\* fetched or attempted after it.
C1_NoClassAfter401 ==
    hist.seen401 # "None" =>
        /\ pc \in { "returned", "done" }
        /\ LastAttempt = hist.seen401

\* C2: within one download_product_type attempt, a 401 on candidate i ends the
\* probe loop at once: no candidate after i is probed and nothing is fetched
\* in that attempt.
C2_401StopsProbeLoop ==
    hist.attempt.stop_at # 0 =>
        /\ hist.attempt.last_probed = hist.attempt.stop_at
        /\ hist.attempt.probes = hist.attempt.stop_at
        /\ hist.attempt.fetched = 0
        /\ pc \notin { "probe", "fetch" }
        /\ hist.attempt.attempt_result = NoResult

C2_Witness ==
    /\ hist.attempt.stop_at > 1
    /\ hist.attempt.stop_at < Len(filenames)
    /\ pc = "returned"

DegradeChain(optimal) ==
    CASE optimal = "ultra_rapid" -> << "ultra_rapid", "rapid", "final" >>
      [] optimal = "rapid" -> << "rapid", "final" >>
      [] optimal = "final" -> << "final" >>
      [] OTHER -> << >>

AttemptsFollowChain ==
    /\ Len(attempts) <= Len(DegradeChain(optimal_product))
    /\ \A i \in 1..Len(attempts) : attempts[i] = DegradeChain(optimal_product)[i]
    /\ \A i \in 1..(Len(attempts) - 1) : attempts[i] \in hist.failed
    /\ (pc = "call" /\ Len(attempts) > 0 => LastAttempt \in hist.failed)
    /\ (pc = "done" /\ result # NoResult =>
            /\ result.product_type = LastAttempt
            /\ result = hist.attempt.attempt_result)
    /\ (pc = "done" /\ result = NoResult /\ Len(attempts) > 0 =>
            Len(attempts) = Len(DegradeChain(optimal_product)))

SoftAnswers == { 404, 503, NetworkError }

\* C4: download_product_type probes the candidates in list order, one after
\* the other: a 404, another status or a network error on candidate i leads
\* to the probe of candidate i+1; the first candidate answering 200 is the one
\* fetched and nothing after it is probed; a list exhausted without a 200
\* makes the attempt return None (NotFound).
C4_ProbeOrder ==
    LET a == hist.attempt
    IN  pc \in { "probe", "fetch", "returned" } =>
          /\ a.probes = a.last_probed
          /\ (pc = "probe" => j = a.last_probed + 1)
          /\ (a.last_answer \in SoftAnswers =>
                \/ pc = "probe" /\ j = a.last_probed + 1
                \/ /\ pc = "returned"
                   /\ a.last_probed = Len(filenames)
                   /\ a.attempt_result = NoResult)
          /\ (a.first200 # 0 =>
                /\ a.last_probed = a.first200
                /\ pc \in { "fetch", "returned" })
          /\ (pc = "fetch" => j = a.first200)
          /\ (a.fetched # 0 => a.fetched = a.first200)
          /\ (a.attempt_result # NoResult =>
                a.attempt_result.name = filenames[a.first200].name)

C4_Witness ==
    /\ pc = "returned"
    /\ hist.attempt.fetched = 3
    /\ hist.attempt.probes = 3
    /\ hist.attempt.attempt_result # NoResult

\* C5: when analyze_data_availability reports data_unavailable, the run ends
\* with None: no class is attempted, no candidate list is generated and no
\* probe or fetch is issued.
C5_UnavailableNoRequests ==
    availability.called /\ availability.data_unavailable =>
        /\ pc = "done"
        /\ result = NoResult
        /\ attempts = << >>
        /\ filenames = << >>
        /\ ~hist.any_probe
        /\ ~hist.any_fetch

C5_Witness ==
    /\ availability.called
    /\ availability.data_unavailable
    /\ pc = "done"

\* C6: analyze_data_availability returns final from 288 hours on, rapid from
\* 24 hours to below 288, ultra_rapid from 3 hours to below 24, and otherwise
\* no class with data_unavailable; exactly one of "a class is set" and
\* "data_unavailable" holds.
C6_ClassifyThresholds ==
    availability.called =>
        LET e == now - MidnightTick(target_date)
            h == TicksPerHour
        IN  /\ availability.hours_elapsed = e
            /\ (e >= 288 * h => availability.optimal_product = "final")
            /\ (e >= 24 * h /\ e < 288 * h => availability.optimal_product = "rapid")
            /\ (e >= 3 * h /\ e < 24 * h => availability.optimal_product = "ultra_rapid")
            /\ (e < 3 * h => availability.optimal_product = "None")
            /\ (availability.data_unavailable <=> e < 3 * h)
            /\ (availability.data_unavailable <=> availability.optimal_product = "None")

C6_Witness ==
    /\ availability.called
    /\ availability.hours_elapsed = 288 * TicksPerHour
    /\ availability.optimal_product = "final"

Rank(a) ==
    CASE a.data_unavailable -> 0
      [] a.optimal_product = "ultra_rapid" -> 1
      [] a.optimal_product = "rapid" -> 2
      [] a.optimal_product = "final" -> 3
      [] OTHER -> -1

\* C7: for one target date, a later call of analyze_data_availability never
\* returns a less available class than an earlier one, in the order
\* unavailable < ultra_rapid < rapid < final, and never data_unavailable after
\* a class.
C7_Monotonic ==
    availability.called /\ prev_availability.called =>
        /\ availability.hours_elapsed >= prev_availability.hours_elapsed
        /\ Rank(availability) >= Rank(prev_availability)
        /\ (~prev_availability.data_unavailable => ~availability.data_unavailable)

C7_Witness ==
    /\ availability.called
    /\ prev_availability.called
    /\ prev_availability.optimal_product = "ultra_rapid"
    /\ availability.optimal_product = "final"

\* C8: date_to_gps_week returns gps_week and day_of_week with
\* gps_week*7 + day_of_week equal to the number of days from 1980-01-06 to the
\* date (negative before the epoch), and 0 <= day_of_week <= 6.
C8_GpsWeekDay ==
    gps.date = target_date =>
        /\ gps.gps_week * 7 + gps.day_of_week = elapsedDays
        /\ gps.day_of_week \in 0..6

C8_Witness ==
    /\ gps.date = target_date
    /\ elapsedDays < -7
    /\ gps.day_of_week = 6

SameClassTwice ==
    /\ gen.called
    /\ prev_gen.called
    /\ gen.product_type = prev_gen.product_type

\* C9 (as claimed): two calls of the generator with the same target date and
\* the same class return the same names in the same order, for every class.
C9_SameListEveryCall ==
    SameClassTwice => gen.filenames = prev_gen.filenames

\* C9 (amended): two calls of the generator with the same target date and the
\* same class return the same names in the same order for final and rapid;
\* for ultra_rapid they do when the clock reads the same date and hour at
\* both calls.
C9_SameListSameHour ==
    SameClassTwice =>
        \/ gen.filenames = prev_gen.filenames
        \/ /\ gen.product_type = "ultra_rapid"
           /\ (gen.at \div TicksPerHour) # (prev_gen.at \div TicksPerHour)

C9_Witness ==
    /\ SameClassTwice
    /\ gen.product_type = "ultra_rapid"
    /\ gen.at # prev_gen.at
    /\ (gen.at \div TicksPerHour) = (prev_gen.at \div TicksPerHour)
    /\ NowOrdinal(gen.at) = ToOrdinal(target_date)
    /\ gen.filenames = prev_gen.filenames

IntervalRank(interval) ==
    CASE interval = "01S" -> 1
      [] interval = "30S" -> 2
      [] interval = "05M" -> 3
      [] interval = "15M" -> 4
      [] OTHER -> 0

\* positions i < k of the list hold interval-tagged names of one center code
SameCenter(l, i, k) ==
    /\ l[i].code = l[k].code
    /\ l[i].grammar = "modern"
    /\ l[k].grammar = "modern"

\* C10 (as claimed): in every modern-era list (final, rapid, ultra_rapid), for
\* one center code every 01S name precedes every 30S name, which precedes
\* every 05M name, which precedes every 15M name.
C10_IntervalOrderPerCenter ==
    gen.called /\ gen.use_new_format =>
        LET l == gen.filenames
        IN  \A i \in 1..Len(l) : \A k \in (i + 1)..Len(l) :
                SameCenter(l, i, k) =>
                    IntervalRank(l[i].interval) <= IntervalRank(l[k].interval)

\* C10 (amended): in every modern-era final and rapid list, for one center
\* code every 01S name precedes every 30S name, which precedes every 05M
\* name, which precedes every 15M name; in an ultra_rapid list this holds
\* among the names of one center code that carry the same day and hour.
C10_IntervalOrderPerCenterHour ==
    gen.called /\ gen.use_new_format =>
        LET l == gen.filenames
        IN  /\ \A i \in 1..Len(l) :
                 (IntervalRank(l[i].interval) = 0) <=> (l[i].grammar = "legacy")
            /\ \A i \in 1..Len(l) : \A k \in (i + 1)..Len(l) :
                 ( /\ SameCenter(l, i, k)
                   /\ \/ gen.product_type \in { "final", "rapid" }
                      \/ l[i].doy = l[k].doy /\ l[i].hour = l[k].hour )
                 => IntervalRank(l[i].interval) <= IntervalRank(l[k].interval)

C10_Witness ==
    /\ gen.called
    /\ gen.use_new_format
    /\ gen.product_type = "ultra_rapid"
    /\ \E i \in 1..Len(gen.filenames) : \E k \in (i + 1)..Len(gen.filenames) :
           /\ SameCenter(gen.filenames, i, k)
           /\ gen.filenames[i].hour = gen.filenames[k].hour
           /\ gen.filenames[i].interval = "01S"
           /\ gen.filenames[k].interval = "15M"

Names(l) == [i \in 1..Len(l) |-> l[i].name]

\* the target dates of the modern format, and the "{year}{doy:03d}" they are named by
ModernDates == { d \in Dates : d # [year |-> 2022, month |-> 11, day |-> 26] }

YearDoy(d) ==
    CASE d = [year |-> 2022, month |-> 11, day |-> 27] -> "2022331"
      [] d = [year |-> 2023, month |-> 1, day |-> 1] -> "2023001"
      [] d = [year |-> 2024, month |-> 3, day |-> 1] -> "2024061"
      [] d = [year |-> 2024, month |-> 12, day |-> 31] -> "2024366"

ExpectedDaily(codes, d) ==
    LET ivs == << "01S", "30S", "05M", "15M" >>
        n == Len(codes)
    IN  [i \in 1..(4 * n) |->
            codes[((i - 1) % n) + 1] \o "_" \o YearDoy(d) \o "0000_01D_"
            \o ivs[((i - 1) \div n) + 1] \o "_ORB.SP3.gz"]

\* the list being probed is the list of the class of the running attempt
ListOfAttempt(ptype) ==
    /\ attempts # << >>
    /\ pc # "call"
    /\ product_type = ptype
    /\ target_date \in ModernDates

\* C11: for a modern-era date the final list has exactly 16 names and the
\* rapid list exactly 20: the intervals 01S, 30S, 05M, 15M outside and, inside
\* each, the center codes in their fixed order; a target date 300 hours before
\* now is classified final and its first candidate is
\* IGS0OPSFIN_{year}{doy:03d}0000_01D_01S_ORB.SP3.gz.
C11_FinalRapidLists ==
    /\ ListOfAttempt("final") =>
          /\ Len(filenames) = 16
          /\ Names(filenames) =
                ExpectedDaily(<< "IGS0OPSFIN", "COD0MGXFIN", "GFZ0MGXFIN", "WUM0MGXFIN" >>,
                              target_date)
    /\ ListOfAttempt("rapid") =>
          /\ Len(filenames) = 20
          /\ Names(filenames) =
                ExpectedDaily(<< "IGS0OPSRAP", "COD0OPSRAP", "GFZ0OPSRAP", "JPL0OPSRAP",
                                 "IGR0OPSRAP" >>, target_date)
    /\ availability.called /\ availability.hours_elapsed = 300 * TicksPerHour =>
          /\ availability.optimal_product = "final"
          /\ optimal_product = "final"
          /\ (pc # "call" /\ target_date \in ModernDates =>
                filenames[1].name =
                    "IGS0OPSFIN_" \o YearDoy(target_date) \o "0000_01D_01S_ORB.SP3.gz")

C11_Witness ==
    /\ availability.called
    /\ availability.hours_elapsed = 300 * TicksPerHour
    /\ pc = "probe"
    /\ j = 1
    /\ Len(filenames) = 16
    /\ filenames[1].name = "IGS0OPSFIN_20230010000_01D_01S_ORB.SP3.gz"

\* the GPS week and day of the target dates
WeekDay(d) ==
    CASE d = [year |-> 2022, month |-> 11, day |-> 26] -> "22376"
      [] d = [year |-> 2022, month |-> 11, day |-> 27] -> "22380"
      [] d = [year |-> 2023, month |-> 1, day |-> 1] -> "22430"
      [] d = [year |-> 2024, month |-> 3, day |-> 1] -> "23035"
      [] d = [year |-> 2024, month |-> 12, day |-> 31] -> "23472"

\* the same for the day before each target date
WeekDayBefore(d) ==
    CASE d = [year |-> 2022, month |-> 11, day |-> 26] -> "22375"
      [] d = [year |-> 2022, month |-> 11, day |-> 27] -> "22376"
      [] d = [year |-> 2023, month |-> 1, day |-> 1] -> "22426"
      [] d = [year |-> 2024, month |-> 3, day |-> 1] -> "23034"
      [] d = [year |-> 2024, month |-> 12, day |-> 31] -> "23471"

Hours3 == { "21", "18", "15", "12", "09", "06", "03", "00" }

\* every name of the legacy grammar a list for date d may hold
LegacyGrammar(d) ==
    { c \o WeekDay(d) \o ".sp3.Z" :
        c \in { "cod", "gfz", "whu", "igs", "codr", "gfzr", "jplr", "igr" } }
    \cup { c \o WeekDay(d) \o "_" \o h \o ".sp3.Z" :
             c \in { "igu", "codu", "gfzu" }, h \in Hours3 }
    \cup { "igu" \o WeekDayBefore(d) \o "_" \o h \o ".sp3.Z" : h \in Hours3 }

\* C12: the format era is a step function of the GPS week alone: a date of
\* week 2237 or before yields the legacy era and only names of the legacy
\* grammar (lower case, .sp3.Z), a date of week 2238 or later yields the
\* modern era, whatever the class and the clock.
C12_EraStep ==
    gen.called =>
        /\ gen.use_new_format <=> gen.gps_week >= 2238
        /\ gen.use_new_format <=> target_date \in ModernDates
        /\ (target_date = [year |-> 2022, month |-> 11, day |-> 26] <=> gen.gps_week = 2237)
        /\ (target_date = [year |-> 2022, month |-> 11, day |-> 27] <=> gen.gps_week = 2238)
        /\ gen.filenames # << >>
        /\ (gen.gps_week <= 2237 =>
              \A i \in 1..Len(gen.filenames) :
                  /\ gen.filenames[i].name \in LegacyGrammar(target_date)
                  /\ gen.filenames[i].grammar = "legacy")
        /\ (gen.gps_week >= 2238 /\ gen.product_type \in { "final", "rapid" } =>
              \A i \in 1..Len(gen.filenames) : gen.filenames[i].grammar = "modern")

C12_Witness ==
    /\ gen.called
    /\ prev_gen.called
    /\ gen.gps_week = 2237
    /\ ~gen.use_new_format
    /\ gen.product_type = "ultra_rapid"
    /\ prev_gen.product_type = "final"
    /\ Len(gen.filenames) = 10

(***************************************************************************)
(* C16: when the probe of a candidate answers 200 and the body fetch that   *)
(* follows fails, the candidate is skipped and the probe loop goes on with  *)
(* the next candidate of the class: no class attempt has returned None      *)
(* after a failed fetch while candidates of its list were still unprobed.   *)
(***************************************************************************)
C16_FetchFailureSkipsCandidate ==
    ~ ( /\ pc = "returned"
        /\ hist.attempt.fetched > 0
        /\ hist.attempt.first200 = hist.attempt.fetched
        /\ hist.attempt.attempt_result = NoResult
        /\ hist.attempt.fetched < Len(filenames) )

(***************************************************************************)
(* The ultra-rapid list of a modern date (C18, C19, C20)                    *)
(***************************************************************************)
\* the hour of the clock at the last call when it falls on the target date,
\* -1 when the call was made on another day
GenHour ==
    LET since == gen.at - MidnightTick(target_date)
    IN  IF since >= 0 /\ since < TicksPerDay THEN since \div TicksPerHour ELSE -1

ModernUltraRapidCall ==
    /\ gen.called
    /\ gen.product_type = "ultra_rapid"
    /\ target_date \in ModernDates

ModernPart(l) == SelectSeq(l, LAMBDA c : c.grammar = "modern")
LegacyPart(l) == SelectSeq(l, LAMBDA c : c.grammar = "legacy")

IguOfYesterday(d, hours) ==
    [i \in 1..Len(hours) |-> "igu" \o WeekDayBefore(d) \o "_" \o hours[i] \o ".sp3.Z"]

\* C18 (as claimed): on the target day before 03:00 the legacy suffix of a
\* modern ultra-rapid list is exactly igu{week}{day}_21.sp3.Z and
\* igu{week}{day}_18.sp3.Z of the previous day.
C18_TwoIguOfYesterday ==
    ModernUltraRapidCall /\ GenHour \in 0..2 =>
        Names(LegacyPart(gen.filenames)) = IguOfYesterday(target_date, << "21", "18" >>)

\* C18 (amended): on the target day before 03:00 the legacy suffix of a
\* modern ultra-rapid list is exactly the four names igu{week}{day}_HH.sp3.Z
\* of the previous day for HH = 21, 18, 15, 12, in that order.
C18_FourIguOfYesterday ==
    ModernUltraRapidCall /\ GenHour \in 0..2 =>
        Names(LegacyPart(gen.filenames))
            = IguOfYesterday(target_date, << "21", "18", "15", "12" >>)

C18_Witness ==
    /\ ModernUltraRapidCall
    /\ GenHour = 2
    /\ Len(LegacyPart(gen.filenames)) = 4
    /\ gen.filenames[Len(gen.filenames)].name
         = "igu" \o WeekDayBefore(target_date) \o "_12.sp3.Z"

(***************************************************************************)
(* C19                                                                      *)
(***************************************************************************)
\* "{year}{doy:03d}" of the names of the yesterday block: the year of the
\* target date with the day of the year of the day before it
YearDoyOfYesterdayBlock(d) ==
    CASE d = [year |-> 2022, month |-> 11, day |-> 27] -> "2022330"
      [] d = [year |-> 2023, month |-> 1, day |-> 1] -> "2023365"
      [] d = [year |-> 2024, month |-> 3, day |-> 1] -> "2024060"
      [] d = [year |-> 2024, month |-> 12, day |-> 31] -> "2024365"

DoyBefore(d) ==
    CASE d = [year |-> 2022, month |-> 11, day |-> 27] -> 330
      [] d = [year |-> 2023, month |-> 1, day |-> 1] -> 365
      [] d = [year |-> 2024, month |-> 3, day |-> 1] -> 60
      [] d = [year |-> 2024, month |-> 12, day |-> 31] -> 365

DoyOf(d) ==
    CASE d = [year |-> 2022, month |-> 11, day |-> 27] -> 331
      [] d = [year |-> 2023, month |-> 1, day |-> 1] -> 1
      [] d = [year |-> 2024, month |-> 3, day |-> 1] -> 61
      [] d = [year |-> 2024, month |-> 12, day |-> 31] -> 366

\* the 24 names: hour outermost (18 then 12), then the interval, then the center
ExpectedYesterdayBlock(d) ==
    LET hs == << "18", "12" >>
        ivs == << "01S", "30S", "05M", "15M" >>
        cs == << "IGS0OPSULT", "COD0OPSULT", "GFZ0OPSULT" >>
    IN  [i \in 1..24 |->
            cs[((i - 1) % 3) + 1] \o "_" \o YearDoyOfYesterdayBlock(d)
            \o hs[((i - 1) \div 12) + 1] \o "00_02D_"
            \o ivs[(((i - 1) \div 3) % 4) + 1] \o "_ORB.SP3.gz"]

\* C19: on the target day before 03:00 the modern-grammar part of a modern
\* ultra-rapid list is exactly the yesterday block: hours 18 then 12, each
\* with the intervals 01S, 30S, 05M, 15M and the centers IGS0OPSULT,
\* COD0OPSULT, GFZ0OPSULT with the _02D_ span, 24 names, each naming the day
\* of the year of the day before the target date; no modern-grammar name
\* names the day of the year of the target date.
C19_YesterdayBlockOnly ==
    ModernUltraRapidCall /\ GenHour \in 0..2 =>
        LET m == ModernPart(gen.filenames)
        IN  /\ Len(m) = 24
            /\ Names(m) = ExpectedYesterdayBlock(target_date)
            /\ \A i \in 1..Len(m) :
                   /\ m[i].doy = DoyBefore(target_date)
                   /\ m[i].doy # DoyOf(target_date)
                   /\ m[i].span = "02D"
                   /\ m[i].hour \in { "18", "12" }
            /\ \A i \in 1..Len(gen.filenames) :
                   i <= 24 <=> gen.filenames[i].grammar = "modern"

C19_Witness ==
    /\ ModernUltraRapidCall
    /\ GenHour = 0
    /\ target_date = [year |-> 2023, month |-> 1, day |-> 1]
    /\ gen.filenames[1].name = "IGS0OPSULT_20233651800_02D_01S_ORB.SP3.gz"
    /\ gen.filenames[24].name = "GFZ0OPSULT_20233651200_02D_15M_ORB.SP3.gz"

(***************************************************************************)
(* C20                                                                      *)
(***************************************************************************)
HourNumber(h) ==
    CASE h = "00" -> 0 [] h = "03" -> 3 [] h = "06" -> 6 [] h = "09" -> 9
      [] h = "12" -> 12 [] h = "15" -> 15 [] h = "18" -> 18 [] h = "21" -> 21

HourText(h) ==
    CASE h = 0 -> "00" [] h = 6 -> "06" [] h = 12 -> "12" [] h = 18 -> "18"

\* the seven names of one hour and one interval
ExpectedSeven(d, h, iv) ==
    LET cs == << "IGS0OPSULT", "COD0OPSULT", "GFZ0OPSULT", "JPL0OPSULT",
                 "IGS0OPSULT", "COD0OPSULT", "GFZ0OPSULT" >>
    IN  [i \in 1..7 |->
            cs[i] \o "_" \o YearDoy(d) \o h \o "00_"
            \o (IF i <= 4 THEN "02D" ELSE "01D") \o "_" \o iv \o "_ORB.SP3.gz"]

ExpectedHourBlock(d, hours) ==
    LET ivs == << "01S", "30S", "05M", "15M" >>
    IN  [i \in 1..(28 * Len(hours)) |->
            ExpectedSeven(d, HourText(hours[((i - 1) \div 28) + 1]),
                          ivs[(((i - 1) \div 7) % 4) + 1])[((i - 1) % 7) + 1]]

\* the candidates that name the target date itself
OfTargetDay(l) ==
    SelectSeq(l, LAMBDA c :
        \/ c.grammar = "modern" /\ c.doy = DoyOf(target_date)
        \/ c.grammar = "legacy"
             /\ c.name \in { "igu" \o WeekDay(target_date) \o "_" \o h \o ".sp3.Z" :
                               h \in Hours3 })

\* the call was made on a day after the target date
GenPast == gen.at - MidnightTick(target_date) >= TicksPerDay

\* C20: in a modern ultra-rapid list the hours named by the modern-grammar
\* candidates of the target date are exactly the h of 18, 12, 6, 0 with
\* h <= currentHour - 3 when the target date is today, and all four when it
\* is a past date, most recent first; each hour and each interval in priority
\* order gives the four _02D_ names (IGS, COD, GFZ, JPL) then the three _01D_
\* names (IGS, COD, GFZ); no candidate for today names an hour later than
\* currentHour - 3.
C20_HoursRespectDelay ==
    ModernUltraRapidCall /\ (GenHour >= 0 \/ GenPast) =>
        LET own == SelectSeq(ModernPart(gen.filenames),
                             LAMBDA c : c.doy = DoyOf(target_date))
            hours == IF GenPast THEN << 18, 12, 6, 0 >>
                     ELSE SelectSeq(<< 18, 12, 6, 0 >>, LAMBDA h : h <= GenHour - 3)
        IN  /\ Names(own) = ExpectedHourBlock(target_date, hours)
            /\ (GenHour >= 0 =>
                  \A i \in 1..Len(OfTargetDay(gen.filenames)) :
                      HourNumber(OfTargetDay(gen.filenames)[i].hour) <= GenHour - 3)

C20_Witness ==
    /\ ModernUltraRapidCall
    /\ prev_gen.called
    /\ prev_gen.product_type = "ultra_rapid"
    /\ GenHour = 15
    /\ (prev_gen.at - MidnightTick(target_date)) \div TicksPerHour = 14
    /\ Len(ModernPart(gen.filenames)) = 84
    /\ Len(ModernPart(prev_gen.filenames)) = 56
    /\ gen.filenames[1].hour = "12"

(***************************************************************************)
(* C13                                                                      *)
(***************************************************************************)
\* the fetch of the candidate has returned
Fetched == pc = "returned" /\ hist.attempt.fetched = j

\* C13: after a .gz artifact is fetched and decompressed successfully, the
\* decompressed file (the name without the .gz suffix) exists and is the path
\* returned; with auto_cleanup true the compressed file no longer exists, with
\* auto_cleanup false it is left in place.
C13_GzCleanup ==
    Fetched /\ filenames[j].compression = ".gz"
            /\ hist.attempt.outcome = "decompressed" =>
        LET compressed_path == PathOf(filenames[j])
            decompressed_path == with_suffix_empty(compressed_path)
            r == hist.attempt.attempt_result
        IN  /\ filenames[j].name = decompressed_path.base \o ".gz"
            /\ decompressed_path.compression = ""
            /\ Exists(files, decompressed_path)
            /\ ~files[decompressed_path].compressed
            /\ r.path = decompressed_path
            /\ r.kind = "decompressed"
            /\ (auto_cleanup = "True" => ~Exists(files, compressed_path))
            /\ (auto_cleanup = "False" =>
                  /\ Exists(files, compressed_path)
                  /\ files[compressed_path].compressed
                  /\ files[compressed_path].lines = files[decompressed_path].lines)

C13_Witness ==
    /\ Fetched
    /\ filenames[j].compression = ".gz"
    /\ hist.attempt.outcome = "decompressed"
    /\ auto_cleanup = "True"
    /\ DOMAIN files = { with_suffix_empty(PathOf(filenames[j])) }
    /\ hist.attempt.attempt_result.path.base = "IGS0OPSFIN_20240610000_01D_01S_ORB.SP3"

(***************************************************************************)
(* C17                                                                      *)
(***************************************************************************)
DecompressionFailures == { "tool_missing", "tool_failed", "tool_no_output",
                           "gz_read_error" }

\* C17: a decompression failure never turns a successful fetch into a failed
\* download: when the uncompress tool is missing, fails or leaves no output
\* for a .Z artifact, or gzip decompression raises for a .gz artifact, the
\* compressed file is kept and its path is the result of the class attempt,
\* and the run ends with it without a fallback to another class.
C17_DecompressionFailureIsSuccess ==
    hist.attempt.outcome \in DecompressionFailures =>
        LET compressed_path == PathOf(filenames[j])
            r == hist.attempt.attempt_result
        IN  /\ pc \in { "returned", "done" }
            /\ (hist.attempt.outcome = "gz_read_error"
                    <=> filenames[j].compression = ".gz")
            /\ r # NoResult
            /\ r.kind = "compressed"
            /\ r.path = compressed_path
            /\ r.name = filenames[j].name
            /\ Exists(files, compressed_path)
            /\ files[compressed_path].compressed
            /\ LastAttempt = product_type
            /\ product_type \notin hist.failed
            /\ (pc = "done" => result = r /\ result.product_type = LastAttempt)

C17_Witness ==
    /\ pc = "done"
    /\ hist.attempt.outcome = "tool_missing"
    /\ filenames[j].compression = ".Z"
    /\ result.kind = "compressed"
    /\ result.path = PathOf(filenames[j])
    /\ attempts = << "ultra_rapid", "rapid" >>
    /\ Exists(files, result.path)

(***************************************************************************)
(* C14, C15: analyze_sp3_file                                               *)
(***************************************************************************)
\* the path handed to analyze_sp3_file
InspectedPath(decompressed) ==
    IF decompressed THEN with_suffix_empty(PathOf(filenames[j])) ELSE PathOf(filenames[j])

\* analyze_sp3_file reads, without a read error, a text file holding `body`
Inspects(body) ==
    /\ AnalyzeFile(TRUE, FALSE)
    /\ Exists(files, InspectedPath(TRUE))
    /\ files[InspectedPath(TRUE)].lines = body

\* C14 (as claimed): the inspection of a file whose header line is
\* `+  32   G01G02R01R02...` reports 4 satellites, the constellations G and R,
\* and ok = true.
C14_HeaderAsWritten ==
    [][Inspects(HeaderAt8) =>
          /\ inspection'.ok
          /\ inspection'.total_satellites = 4
          /\ inspection'.constellations = { "G", "R" }]_vars

\* C14 (amended): the inspection of a file whose header line carries its
\* 3-character tokens from column offset 9 on, `+   32   G01G02R01R02...`,
\* reports 4 satellites, the constellations G and R with 2 satellites each,
\* and ok = true; with the tokens from offset 8 on, `+  32   G01G02R01R02...`,
\* it finds no satellite and reports ok = false.
C14_HeaderAtOffset9 ==
    [][/\ Inspects(HeaderAt9) =>
            /\ inspection'.ok
            /\ inspection'.total_satellites = 4
            /\ inspection'.constellations = { "G", "R" }
            /\ inspection'.satellites["G"] = 2
            /\ inspection'.satellites["R"] = 2
       /\ Inspects(HeaderAt8) =>
            /\ ~inspection'.ok
            /\ inspection'.total_satellites = 0]_vars

C14_Witness ==
    /\ inspection.called
    /\ inspection.ok
    /\ inspection.total_satellites = 4
    /\ inspection.constellations = { "G", "R" }
    /\ Exists(files, inspection.path)
    /\ files[inspection.path].lines = HeaderAt9

\* contents in whose first 200 lines there is no satellite token
NoTokenBodies == { NoHeader, BarePlus, HeaderAtLine201 }

\* C15: analyze_sp3_file returns False, and leaves the directory as it is,
\* whenever the path is missing, still ends in .gz or .Z, names an empty file,
\* or names a file with no satellite token in its first 200 lines (a read
\* error is caught and gives False as well).
C15_InspectFailsSafely ==
    [][\A decompressed \in BOOLEAN, read_error \in BOOLEAN :
          AnalyzeFile(decompressed, read_error) =>
              LET path == InspectedPath(decompressed)
              IN  /\ files' = files
                  /\ inspection'.called
                  /\ inspection'.path = path
                  /\ (\/ ~Exists(files, path)
                      \/ path.compression \in { ".gz", ".Z" }
                      \/ read_error
                      \/ files[path].lines = EmptyFile
                      \/ files[path].lines \in NoTokenBodies)
                       => ~inspection'.ok /\ inspection'.total_satellites = 0]_vars

\* an inspection that found nothing in a file whose only header is on line 201
C15_Witness ==
    /\ inspection.called
    /\ ~inspection.ok
    /\ inspection.path.compression = ""
    /\ Exists(files, inspection.path)
    /\ files[inspection.path].lines = HeaderAtLine201

(***************************************************************************)
(* C21                                                                      *)
(***************************************************************************)
\* the list being probed is an ultra-rapid one, generated at the clock
\* reading at which analyze_data_availability classified the date
UltraRapidSameClock ==
    /\ pc \in { "probe", "fetch", "returned" }
    /\ product_type = "ultra_rapid"
    /\ hist.attempt.generated_at = MidnightTick(target_date) + availability.hours_elapsed

\* C21: when smart_download_sp3 selects ultra_rapid as the optimal class and
\* the clock reads the same at classification and at generation, the target
\* date is today and the hour is at least 3; the list holds the hour-00
\* candidates of the target date, no candidate names the previous day
\* (yesterday branch) and no modern or igu candidate names an hour later
\* than the current hour minus 3 (past-date branch).
C21_UltraRapidIsToday ==
    UltraRapidSameClock =>
        LET since == hist.attempt.generated_at - MidnightTick(target_date)
            hour == since \div TicksPerHour
            l == filenames
            names == { l[i].name : i \in 1..Len(l) }
        IN  /\ optimal_product = "ultra_rapid"
            /\ attempts = << "ultra_rapid" >>
            /\ since >= 0
            /\ since < TicksPerDay
            /\ hour >= 3
            /\ ("igu" \o WeekDay(target_date) \o "_00.sp3.Z") \in names
            /\ (target_date \in ModernDates =>
                  \A iv \in { "01S", "30S", "05M", "15M" } :
                      ("IGS0OPSULT_" \o YearDoy(target_date) \o "0000_02D_" \o iv
                         \o "_ORB.SP3.gz") \in names)
            /\ (target_date \notin ModernDates =>
                  ("codu" \o WeekDay(target_date) \o "_00.sp3.Z") \in names)
            /\ \A i \in 1..Len(l) :
                   /\ (l[i].grammar = "modern" => l[i].doy = DoyOf(target_date))
                   /\ (l[i].grammar = "legacy" =>
                         Pad4(l[i].week) \o ToString(l[i].dow) = WeekDay(target_date))
                   /\ (l[i].grammar = "modern" \/ l[i].code = "igu" =>
                         HourNumber(l[i].hour) <= hour - 3)

\* the run starts before three o'clock of the target day and the clock
\* reaches three before the date is classified: only the hour 00 is published
C21_Witness ==
    /\ UltraRapidSameClock
    /\ target_date = [year |-> 2024, month |-> 3, day |-> 1]
    /\ hist.attempt.generated_at = MidnightTick(target_date) + 3 * TicksPerHour
    /\ hist.ticks = 1
    /\ now = hist.attempt.generated_at
    /\ Len(filenames) = 29
    /\ filenames[1].name = "IGS0OPSULT_20240610000_02D_01S_ORB.SP3.gz"
    /\ filenames[Len(filenames)].name = "igu23035_00.sp3.Z"

(***************************************************************************)
(* C22                                                                      *)
(***************************************************************************)
\* requests the program is waiting for: the HEAD of the probe loop or the GET
\* of download_file
InFlight == (IF pc = "probe" THEN 1 ELSE 0) + (IF pc = "fetch" THEN 1 ELSE 0)

RunBounded ==
    /\ Len(attempts) <= 3
    /\ \A i \in 1..Len(attempts) : \A k \in 1..Len(attempts) :
           attempts[i] = attempts[k] => i = k
    /\ hist.attempt.probes <= Len(filenames)
    /\ hist.attempt.probes = hist.attempt.last_probed
    /\ hist.attempt.last_probed <= j
    /\ hist.attempt.fetches <= 1
    /\ InFlight <= 1

\* C22: every run of smart_download_sp3 ends, whatever the archive answers;
\* at most three classes are attempted and none twice, within one attempt
\* each position of the list is probed at most once and at most one body is
\* fetched, and never more than one request is in flight.
C22_RunEndsBounded == [](RunBounded) /\ <>(pc = "done")

\* a run that probed every list of the degrade chain and found nothing
C22_Witness ==
    /\ pc = "done"
    /\ attempts = << "ultra_rapid", "rapid", "final" >>
    /\ result = NoResult
    /\ hist.failed = { "ultra_rapid", "rapid", "final" }
    /\ hist.attempt.probes = Len(filenames)
    /\ hist.attempt.fetches = 0

==============================================================================
